---- MODULE Spec2Model ----
(***************************************************************************)
(* pyalign: memoized recursive minimum-cost alignment of two sequences     *)
(* (pyalign/__init__.py).  The model follows SmithWaterman and its inner   *)
(* _compute_alignment invocation by invocation, with the Python call stack *)
(* made explicit, and the AlignmentResult operators as pure operators.     *)
(***************************************************************************)
EXTENDS Integers, Sequences, FiniteSets, TLC

\* ---------------------------------------------------------------- bounds
MaxLen     == 2     \* longest input sequence explored by Spec
MaxElem    == 1     \* the elements are the two numbers 0 and MaxElem
MaxPenalty == 2     \* finite skip penalties are 0..MaxPenalty

\* ------------------------------------------------------ program constants
SizeLimit == 900    \* the length accepted by SmithWaterman
INFTY     == -1     \* math.inf: a loss larger than every number
None      == -2     \* Python None: no element, no offset, no argument

Elem      == {0, MaxElem}
Penalties == {None} \cup (0..MaxPenalty)

\* ------------------------------------------------------------ arithmetic
\* float addition and comparison extended with math.inf
LossAdd(a, b) == IF a = INFTY \/ b = INFTY THEN INFTY ELSE a + b
LossLt(a, b)  == a # INFTY /\ (b = INFTY \/ a < b)
LossGt(a, b)  == LossLt(b, a)
LossLe(a, b)  == ~ LossLt(b, a)
LossGe(a, b)  == ~ LossLt(a, b)
Abs(n)        == IF n < 0 THEN 0 - n ELSE n

\* ------------------------------------------------------------ data types
Item(offset, value)    == [offset |-> offset, value |-> value]
Aligned(first, second) == [first |-> first, second |-> second]
AlignmentResult(aligned, loss) == [aligned |-> aligned, loss |-> loss]
NOVALUE == Item(None, None)

\* -------------------------------------------------------- cost functions
\* The outcome of one call of a distance function: a number, or an exception.
Returns(v)  == [kind |-> "returns", val |-> v]
Raises(exc) == [kind |-> exc, val |-> INFTY]

\* difference(): the closure _compute_difference with its two captured penalties
difference(sp, sp2) ==
    LET skip_penalty_  == IF sp = None THEN INFTY ELSE sp
        skip_penalty1  == skip_penalty_
        skip_penalty2_ == IF sp2 = None THEN skip_penalty_ ELSE sp2
    IN  [given |-> FALSE, p1 |-> skip_penalty1, p2 |-> skip_penalty2_,
         fx |-> None, fy |-> None, exc |-> "ValueError"]

\* A caller-supplied distance function: it charges p1 / p2 for a skip and
\* |x - y| for a match, and raises exc on the one pairing (fx, fy) it forbids
\* ((None, None) is never asked, so it stands for "forbids nothing").
CustomDistance(p1, p2, fx, fy, exc) ==
    [given |-> TRUE, p1 |-> p1, p2 |-> p2, fx |-> fx, fy |-> fy, exc |-> exc]

NoDistance == [given |-> FALSE, p1 |-> 0, p2 |-> 0,
               fx |-> None, fy |-> None, exc |-> "ValueError"]

\* d(item1, item2)
_compute_difference(d, item1, item2) ==
    IF item1 = None THEN Returns(d.p1)
    ELSE IF item2 = None THEN Returns(d.p2)
    ELSE Returns(Abs(item1 - item2))

CallDistance(d, item1, item2) ==
    IF d.given /\ item1 = d.fx /\ item2 = d.fy
    THEN Raises(d.exc)
    ELSE _compute_difference(d, item1, item2)

\* ------------------------------------------------ AlignmentResult algebra
\* from_pair that records the pair of a failed distance call
from_pair_keeps_pair(item1, item2, d) ==
    LET out == CallDistance(d, item1.value, item2.value)
    IN  AlignmentResult(<<Aligned(item1, item2)>>, out.val)

\* AlignmentResult.from_pair, for a distance call that did not propagate
from_pair(item1, item2, d) ==
    LET out == CallDistance(d, item1.value, item2.value)
    IN  IF out.kind = "ValueError"
        THEN AlignmentResult(<<>>, INFTY)
        ELSE AlignmentResult(<<Aligned(item1, item2)>>, out.val)

\* __add__ that forgets the loss of self
__add___other_loss(self, other) ==
    AlignmentResult(self.aligned \o other.aligned, other.loss)

\* __add__ that concatenates right-then-left
__add___reversed(self, other) ==
    AlignmentResult(other.aligned \o self.aligned, LossAdd(self.loss, other.loss))

\* AlignmentResult.__add__ on two results
__add__(self, other) ==
    AlignmentResult(self.aligned \o other.aligned, LossAdd(self.loss, other.loss))

\* AlignmentResult.__lt__ on two results
__lt__(self, other) == LossLt(self.loss, other.loss)

\* AlignmentResult.__gt__, __ge__, __le__ on two results
__gt__(self, other) == LossGt(self.loss, other.loss)
__ge__(self, other) == LossGe(self.loss, other.loss)
__le__(self, other) == LossLe(self.loss, other.loss)

\* min that never looks at its third argument
min_first_two(a, b, c) == IF __lt__(b, a) THEN b ELSE a

\* min that keeps the last minimal argument
min_last(a, b, c) ==
    LET m == IF __le__(b, a) THEN b ELSE a
    IN  IF __le__(c, m) THEN c ELSE m

\* the builtin min(a, b, c): the first argument that no later one is < than
min(a, b, c) ==
    LET m == IF __lt__(b, a) THEN b ELSE a
    IN  IF __lt__(c, m) THEN c ELSE m

\* ------------------------------------------------------------------ state
VARIABLES
    first_seq, second_seq,        \* arguments of the current call
    given, skip_penalty, skip_penalty2,
    distance,                     \* the local `distance` after line 105
    memo,                         \* the local dict memo
    stack,                        \* the _compute_alignment invocations in progress
    pc,                           \* "idle", "running", "returned", "raised"
    result,                       \* the value returned by the call
    error,                        \* the exception that ended the call
    calls,                        \* the distance calls of the current call, in order
    written,                      \* the cells stored into memo, in order
    opres                         \* the last operator application (SpecOps)

vars == <<first_seq, second_seq, given, skip_penalty, skip_penalty2, distance,
          memo, stack, pc, result, error, calls, written, opres>>

EmptyMemo  == [c \in {} |-> AlignmentResult(<<>>, 0)]
NoResult   == AlignmentResult(<<>>, 0)
NoOp       == [op |-> "none"]

first_size  == Len(first_seq)
second_size == Len(second_seq)

\* a size test that rejects the limit itself
TooLong_at_limit(n1, n2) == n1 >= SizeLimit \/ n2 >= SizeLimit

\* the size test of SmithWaterman
TooLong(n1, n2) == n1 > SizeLimit \/ n2 > SizeLimit

\* a memo that outlives the call
NewMemo_shared(previous) == previous

\* memo = {} : every call starts from a dict of its own
NewMemo(previous) == EmptyMemo

\* one invocation _compute_alignment(offset1, offset2): k candidates are
\* complete (cands), head is the from_pair result waiting for its recursion
Frame(offset1, offset2) ==
    [offset1 |-> offset1, offset2 |-> offset2, k |-> 0,
     head |-> NoResult, cands |-> <<>>]

Top      == stack[Len(stack)]
TopCell  == <<Top.offset1, Top.offset2>>
Memoized == TopCell \in DOMAIN memo

\* how many candidates the branch of the cell evaluates
NCands(o1, o2) ==
    IF o1 = first_size
    THEN (IF o2 = second_size THEN 0 ELSE 1)
    ELSE (IF o2 = second_size THEN 1 ELSE 3)

item1At(o1) == Item(o1, first_seq[o1 + 1])
item2At(o2) == Item(o2, second_seq[o2 + 1])

\* candidates whose forced skips put the skip marker on the wrong side
Cand_swapped(o1, o2, k) ==
    IF o1 = first_size
    THEN [first |-> item2At(o2), second |-> NOVALUE, cell |-> <<o1, o2 + 1>>]
    ELSE IF o2 = second_size
    THEN [first |-> NOVALUE, second |-> item1At(o1), cell |-> <<o1 + 1, o2>>]
    ELSE IF k = 0
    THEN [first |-> item1At(o1), second |-> item2At(o2), cell |-> <<o1 + 1, o2 + 1>>]
    ELSE IF k = 1
    THEN [first |-> NOVALUE, second |-> item2At(o2), cell |-> <<o1, o2 + 1>>]
    ELSE [first |-> item1At(o1), second |-> NOVALUE, cell |-> <<o1 + 1, o2>>]

\* the k-th candidate of cell (o1, o2): the pair given to from_pair and the
\* cell of the recursive call
Cand(o1, o2, k) ==
    IF o1 = first_size
    THEN [first |-> NOVALUE, second |-> item2At(o2), cell |-> <<o1, o2 + 1>>]
    ELSE IF o2 = second_size
    THEN [first |-> item1At(o1), second |-> NOVALUE, cell |-> <<o1 + 1, o2>>]
    ELSE IF k = 0
    THEN [first |-> item1At(o1), second |-> item2At(o2), cell |-> <<o1 + 1, o2 + 1>>]
    ELSE IF k = 1
    THEN [first |-> NOVALUE, second |-> item2At(o2), cell |-> <<o1, o2 + 1>>]
    ELSE [first |-> item1At(o1), second |-> NOVALUE, cell |-> <<o1 + 1, o2>>]

\* `return memo[offset1, offset2]`: the invocation on top of the stack ends
\* with value v; its caller adds v to the pending from_pair result, or the
\* whole call returns v
Return(v) ==
    IF Len(stack) = 1
    THEN /\ stack' = <<>>
         /\ pc' = "returned"
         /\ result' = v
    ELSE LET n      == Len(stack)
             caller == stack[n - 1]
             done   == [caller EXCEPT !.k = @ + 1,
                                      !.cands = Append(@, __add__(caller.head, v)),
                                      !.head = NoResult]
         IN  /\ stack' = SubSeq(stack, 1, n - 2) \o <<done>>
             /\ pc' = pc
             /\ result' = result

\* --------------------------------------------------------------- inputs
SeqsUpTo(n) == UNION {[1..k -> Elem] : k \in 0..n}

\* the pairings a distance function of the caller may forbid
Forbidden == ((Elem \cup {None}) \X (Elem \cup {None})) \ {<<None, None>>}

CustomDistances ==
    {CustomDistance(p, p, None, None, "ValueError") : p \in {0, MaxPenalty}}
    \cup
    {CustomDistance(p, p, f[1], f[2], exc) :
        p \in {0, MaxPenalty}, f \in Forbidden, exc \in {"ValueError", "TypeError"}}

\* --------------------------------------------------------------- actions
Init ==
    /\ first_seq = <<>>
    /\ second_seq = <<>>
    /\ given = NoDistance
    /\ skip_penalty = None
    /\ skip_penalty2 = None
    /\ distance = NoDistance
    /\ memo = EmptyMemo
    /\ stack = <<>>
    /\ pc = "idle"
    /\ result = NoResult
    /\ error = "none"
    /\ calls = <<>>
    /\ written = <<>>
    /\ opres = NoOp

\* SmithWaterman(s1, s2, d, sp, sp2) up to the call _compute_alignment(0, 0)
Enter(s1, s2, d, sp, sp2) ==
    /\ first_seq' = s1
    /\ second_seq' = s2
    /\ given' = d
    /\ skip_penalty' = sp
    /\ skip_penalty2' = sp2
    /\ result' = NoResult
    /\ calls' = <<>>
    /\ written' = <<>>
    /\ opres' = opres
    /\ IF TooLong(Len(s1), Len(s2))
       THEN /\ pc' = "raised"
            /\ error' = "ValueError: size"
            /\ distance' = NoDistance
            /\ memo' = EmptyMemo
            /\ stack' = <<>>
       ELSE /\ pc' = "running"
            /\ error' = "none"
            /\ distance' = (IF d.given THEN d ELSE difference(sp, sp))
            /\ memo' = NewMemo(memo)
            /\ stack' = <<Frame(0, 0)>>

\* a call with the default distance
SmithWaterman ==
    /\ pc = "idle"
    /\ \E s1 \in SeqsUpTo(MaxLen), s2 \in SeqsUpTo(MaxLen),
          sp \in Penalties, sp2 \in Penalties :
              Enter(s1, s2, NoDistance, sp, sp2)

\* a call with a distance function of the caller
SmithWatermanWith ==
    /\ pc = "idle"
    /\ \E s1 \in SeqsUpTo(MaxLen), s2 \in SeqsUpTo(MaxLen), d \in CustomDistances :
              Enter(s1, s2, d, None, None)

\* the next call of the caller, once the previous one has ended: the same
\* call again, or the call with the two sequences exchanged
SmithWatermanAgain ==
    /\ pc \in {"returned", "raised"}
    /\ \/ Enter(first_seq, second_seq, given, skip_penalty, skip_penalty2)
       \/ Enter(second_seq, first_seq, given, skip_penalty, skip_penalty2)

\* the cell is in memo: the stored result is returned
Lookup ==
    /\ pc = "running"
    /\ Memoized
    /\ Return(memo[TopCell])
    /\ UNCHANGED <<first_seq, second_seq, given, skip_penalty, skip_penalty2,
                   distance, memo, error, calls, written, opres>>

\* both sequences exhausted: memo[offset1, offset2] = AlignmentResult([], 0)
BothExhausted ==
    /\ pc = "running"
    /\ ~ Memoized
    /\ NCands(Top.offset1, Top.offset2) = 0
    /\ memo' = (TopCell :> AlignmentResult(<<>>, 0)) @@ memo
    /\ written' = Append(written, TopCell)
    /\ Return(AlignmentResult(<<>>, 0))
    /\ UNCHANGED <<first_seq, second_seq, given, skip_penalty, skip_penalty2,
                   distance, error, calls, opres>>

\* AlignmentResult.from_pair(...) of the next candidate, then the recursive
\* call _compute_alignment(...) it is added to
Candidate ==
    /\ pc = "running"
    /\ ~ Memoized
    /\ Top.k < NCands(Top.offset1, Top.offset2)
    /\ LET c   == Cand(Top.offset1, Top.offset2, Top.k)
           out == CallDistance(distance, c.first.value, c.second.value)
       IN  /\ calls' = Append(calls, [item1 |-> c.first.value,
                                      item2 |-> c.second.value, out |-> out])
           /\ IF out.kind \notin {"returns", "ValueError"}
              THEN /\ pc' = "raised"
                   /\ error' = out.kind
                   /\ stack' = <<>>
              ELSE /\ pc' = pc
                   /\ error' = error
                   /\ stack' = [stack EXCEPT ![Len(stack)].head =
                                    from_pair(c.first, c.second, distance)]
                               \o <<Frame(c.cell[1], c.cell[2])>>
    /\ UNCHANGED <<first_seq, second_seq, given, skip_penalty, skip_penalty2,
                   distance, memo, result, written, opres>>

\* the value the branch of the cell stores once its candidates are complete
Best(f) ==
    IF Len(f.cands) = 1 THEN f.cands[1]
    ELSE min(f.cands[1], f.cands[2], f.cands[3])

\* memo[offset1, offset2] = ... ; return memo[offset1, offset2]
Store ==
    /\ pc = "running"
    /\ ~ Memoized
    /\ NCands(Top.offset1, Top.offset2) > 0
    /\ Top.k = NCands(Top.offset1, Top.offset2)
    /\ memo' = (TopCell :> Best(Top)) @@ memo
    /\ written' = Append(written, TopCell)
    /\ Return(Best(Top))
    /\ UNCHANGED <<first_seq, second_seq, given, skip_penalty, skip_penalty2,
                   distance, error, calls, opres>>

\* calls around the size limit: a sequence of SizeLimit or SizeLimit + 1
\* elements against an empty one, and the short sequences against each other
LongSeq(n) == [k \in 1..n |-> 0]
LimitSeqs  == SeqsUpTo(MaxLen) \cup {LongSeq(SizeLimit), LongSeq(SizeLimit + 1)}

SmithWatermanLimit ==
    /\ pc = "idle"
    /\ \E s1 \in LimitSeqs, s2 \in LimitSeqs, sp \in {None, MaxPenalty} :
          /\ \/ Len(s1) <= MaxLen /\ Len(s2) <= MaxLen
             \/ (s1 = <<>> \/ s2 = <<>>) /\ sp = MaxPenalty
             \/ TooLong(Len(s1), Len(s2))
          /\ Enter(s1, s2, NoDistance, sp, None)

NextLimit ==
    \/ SmithWatermanLimit
    \/ Lookup
    \/ BothExhausted
    \/ Candidate
    \/ Store

SpecLimit == Init /\ [][NextLimit]_vars

\* ------------------------------------------- operators of AlignmentResult
\* A Python value as its type and its fields: an AlignmentResult is a tuple
\* subclass of the two fields (aligned, loss).
PyInt(n)    == [type |-> "int", val |-> <<n>>]
PyNone      == [type |-> "NoneType", val |-> <<>>]
PyTuple(t)  == [type |-> "tuple", val |-> t]
PyResult(r) == [type |-> "AlignmentResult", val |-> <<r.aligned, r.loss>>]
AsResult(v) == AlignmentResult(v.val[1], v.val[2])

\* the special methods the class body of AlignmentResult defines
Methods == {"__gt__", "__ge__", "__lt__", "__le__", "__add__"}
Operators == Methods \cup {"__eq__"}

\* a method of Methods called with an AlignmentResult as `other`
MethodValue(m, self, other) ==
    IF m = "__gt__" THEN <<__gt__(self, other)>>
    ELSE IF m = "__ge__" THEN <<__ge__(self, other)>>
    ELSE IF m = "__lt__" THEN <<__lt__(self, other)>>
    ELSE IF m = "__le__" THEN <<__le__(self, other)>>
    ELSE <<__add__(self, other)>>

\* a method of Methods: the isinstance test, then the value
Method(m, self, other) ==
    IF other.type # "AlignmentResult"
    THEN [kind |-> "ValueError", value |-> <<>>]
    ELSE [kind |-> "returns", value |-> MethodValue(m, AsResult(self), AsResult(other))]

\* the method that `other <op> self` reaches on self
Reflected(m) ==
    IF m = "__lt__" THEN "__gt__"
    ELSE IF m = "__gt__" THEN "__lt__"
    ELSE IF m = "__le__" THEN "__ge__"
    ELSE IF m = "__ge__" THEN "__le__"
    ELSE m

\* `self <op> other` (selfLeft) or `other <op> self`, self an AlignmentResult.
\* The class defines neither __eq__ nor __radd__: equality is the one
\* inherited from tuple, and other + self is the __add__ of the type of
\* other.  An ordering reaches the method of the class, directly or reflected.
BinaryOp(m, self, other, selfLeft) ==
    IF m = "__eq__"
    THEN [kind |-> "returns",
          value |-> <<other.type \in {"tuple", "AlignmentResult"} /\ other.val = self.val>>]
    ELSE IF selfLeft
    THEN Method(m, self, other)
    ELSE IF other.type = "AlignmentResult"
    THEN Method(m, other, self)
    ELSE IF m = "__add__"
    THEN (IF other.type = "tuple"
          THEN [kind |-> "returns", value |-> <<other.val \o self.val>>]
          ELSE [kind |-> "TypeError", value |-> <<>>])
    ELSE Method(Reflected(m), self, other)

OpResults ==
    {AlignmentResult(<<>>, 0), AlignmentResult(<<>>, INFTY)}
    \cup {AlignmentResult(<<Aligned(Item(0, 0), NOVALUE)>>, p) : p \in 0..MaxPenalty}

OpOthers ==
    {PyInt(n) : n \in 0..MaxElem} \cup {PyNone}
    \cup {PyTuple(<<r.aligned, r.loss>>) : r \in OpResults}
    \cup {PyResult(r) : r \in OpResults}

\* one operator application on an AlignmentResult
ApplyOperator ==
    /\ pc = "idle"
    /\ \E m \in Operators, r \in OpResults, o \in OpOthers, selfLeft \in BOOLEAN :
          opres' = [op |-> m, self |-> PyResult(r), other |-> o, left |-> selfLeft,
                    outcome |-> BinaryOp(m, PyResult(r), o, selfLeft)]
    /\ UNCHANGED <<first_seq, second_seq, given, skip_penalty, skip_penalty2,
                   distance, memo, stack, pc, result, error, calls, written>>

NextOps == ApplyOperator

SpecOps == Init /\ [][NextOps]_vars

NextDistance ==
    \/ SmithWatermanWith
    \/ SmithWatermanAgain
    \/ Lookup
    \/ BothExhausted
    \/ Candidate
    \/ Store

SpecDistance == Init /\ [][NextDistance]_vars

Next ==
    \/ SmithWaterman
    \/ SmithWatermanAgain
    \/ Lookup
    \/ BothExhausted
    \/ Candidate
    \/ Store

Spec == Init /\ [][Next]_vars

\* ------------------------------------------------------ shared notions
Range(s) == {s[k] : k \in 1..Len(s)}

\* every result the engine has produced so far
Entries == {memo[c] : c \in DOMAIN memo} \cup (IF pc = "returned" THEN {result} ELSE {})

\* the cost of a pairing under the distance of the call, a failure counted
\* as +infinity
CostOf(x, y) ==
    LET out == CallDistance(distance, x, y)
    IN  IF out.kind = "returns" THEN out.val ELSE INFTY

RECURSIVE SumCosts(_)
SumCosts(aligned) ==
    IF aligned = <<>> THEN 0
    ELSE LossAdd(CostOf(aligned[1].first.value, aligned[1].second.value),
                 SumCosts(Tail(aligned)))

\* the total costs of all monotone paths from cell (i, j) to the end cell
RECURSIVE PathCosts(_, _)
PathCosts(i, j) ==
    IF i = first_size /\ j = second_size THEN {0}
    ELSE (IF i < first_size /\ j < second_size
          THEN {LossAdd(CostOf(first_seq[i + 1], second_seq[j + 1]), c) :
                    c \in PathCosts(i + 1, j + 1)}
          ELSE {})
         \cup
         (IF j < second_size
          THEN {LossAdd(CostOf(None, second_seq[j + 1]), c) : c \in PathCosts(i, j + 1)}
          ELSE {})
         \cup
         (IF i < first_size
          THEN {LossAdd(CostOf(first_seq[i + 1], None), c) : c \in PathCosts(i + 1, j)}
          ELSE {})

Cheapest(S) == CHOOSE m \in S : \A x \in S : LossLe(m, x)

\* ------------------------------------------------------------------- C1
\* C1: the loss returned by SmithWaterman is the least total cost over all
\* complete monotone alignments of the two sequences.
C1_Optimal ==
    pc = "returned" => result.loss = Cheapest(PathCosts(0, 0))

C1_Witness ==
    /\ pc = "returned"
    /\ first_size = MaxLen /\ second_size >= 1
    /\ result.loss # INFTY /\ result.loss > 0
    /\ Cardinality(PathCosts(0, 0)) >= 3
    /\ \E k \in 1..Len(result.aligned) : result.aligned[k].second = NOVALUE
    /\ \E k \in 1..Len(result.aligned) :
          result.aligned[k].first # NOVALUE /\ result.aligned[k].second # NOVALUE

\* ------------------------------------------------------------------- C2
Pen(p) == IF p = None THEN INFTY ELSE p

\* C2: with the default distance every skip on the first side is charged
\* skip_penalty and every skip on the second side skip_penalty2, a penalty
\* that is not supplied counting as +infinity whatever the other one is.
C2_Independent ==
    ~ given.given =>
        \A k \in 1..Len(calls) :
            /\ calls[k].item1 = None => calls[k].out = Returns(Pen(skip_penalty))
            /\ (calls[k].item1 # None /\ calls[k].item2 = None)
                  => calls[k].out = Returns(Pen(skip_penalty2))

\* ------------------------------------------------------------------- C3
\* every path from cell (i, j) to the end cell contains a pairing on which
\* the distance of the call raises one of the exceptions of excs
RECURSIVE AllForbidden(_, _, _)
AllForbidden(i, j, excs) ==
    /\ ~ (i = first_size /\ j = second_size)
    /\ (i < first_size /\ j < second_size) =>
          \/ CallDistance(distance, first_seq[i + 1], second_seq[j + 1]).kind \in excs
          \/ AllForbidden(i + 1, j + 1, excs)
    /\ j < second_size =>
          \/ CallDistance(distance, None, second_seq[j + 1]).kind \in excs
          \/ AllForbidden(i, j + 1, excs)
    /\ i < first_size =>
          \/ CallDistance(distance, first_seq[i + 1], None).kind \in excs
          \/ AllForbidden(i + 1, j, excs)

\* the from_pair result of every invocation that waits for its recursive
\* call is ([], +infinity) when the distance raised one of excs on the pair
Absorbed(excs) ==
    \A n \in 1..(Len(stack) - 1) :
        LET f == stack[n]
            c == Cand(f.offset1, f.offset2, f.k)
        IN  CallDistance(distance, c.first.value, c.second.value).kind \in excs
                => f.head = AlignmentResult(<<>>, INFTY)

\* C3 as stated: no failure of the distance function, whatever it raises,
\* ends the call; the failed pair yields ([], +infinity); the loss is
\* +infinity when every path contains a failing pair.
C3_NeverSurfaced ==
    /\ pc = "raised" => error = "ValueError: size"
    /\ Absorbed({"ValueError", "TypeError"})
    /\ (pc = "returned" /\ AllForbidden(0, 0, {"ValueError", "TypeError"}))
          => result.loss = INFTY

\* C3 amended: the same for the failures signalled by ValueError; any other
\* exception of the distance function ends the call.
C3_ValueErrorAbsorbed ==
    /\ pc = "raised" => error \notin {"ValueError", "none"}
    /\ \A k \in 1..Len(calls) :
          calls[k].out.kind \notin {"returns", "ValueError"}
              => (pc = "raised" /\ k = Len(calls) /\ error = calls[k].out.kind)
    /\ Absorbed({"ValueError"})
    /\ (pc = "returned" /\ AllForbidden(0, 0, {"ValueError"})) => result.loss = INFTY

C3_Witness ==
    /\ pc = "returned"
    /\ first_size >= 1 /\ second_size >= 1
    /\ \E k \in 1..Len(calls) : calls[k].out.kind = "ValueError"
    /\ AllForbidden(0, 0, {"ValueError"})
    /\ result.loss = INFTY

\* ------------------------------------------------------------------- C4
\* C4 as stated: the loss of every produced result is the sum of the costs of
\* the pairs it contains (0 for an empty pair sequence).
C4_LossIsSum ==
    \A e \in Entries : e.loss = SumCosts(e.aligned)

\* C4 amended: that holds of every result of finite loss; a result that
\* absorbed a failed pairing has loss +infinity without containing the pair,
\* so an empty pair sequence has loss 0 or +infinity.
C4_FiniteLossIsSum ==
    \A e \in Entries :
        LET sum == SumCosts(e.aligned)
        IN  /\ e.loss # INFTY => e.loss = sum
            /\ e.aligned = <<>> => e.loss \in {0, INFTY}
            /\ e.loss # sum =>
                  /\ e.loss = INFTY
                  /\ \E k \in 1..Len(calls) : calls[k].out.kind = "ValueError"

C4_Witness ==
    /\ pc = "returned"
    /\ Len(result.aligned) >= 2
    /\ result.loss # INFTY /\ result.loss >= 2
    /\ \E c \in DOMAIN memo : memo[c].loss = INFTY /\ SumCosts(memo[c].aligned) # INFTY

\* ------------------------------------------------------------------- C5
\* C5: the call ends with the size error exactly when a sequence is longer
\* than 900, and then nothing was computed: no distance call, no cell
\* stored, no invocation of _compute_alignment.
C5_SizeLimit ==
    pc # "idle" =>
        /\ (pc = "raised" /\ error = "ValueError: size")
              <=> (Len(first_seq) > 900 \/ Len(second_seq) > 900)
        /\ (Len(first_seq) > 900 \/ Len(second_seq) > 900) =>
              /\ calls = <<>>
              /\ written = <<>>
              /\ DOMAIN memo = {}
              /\ stack = <<>>

C5_Witness ==
    /\ pc = "raised"
    /\ error = "ValueError: size"
    /\ Len(first_seq) = 901
    /\ Len(second_seq) = 0
    /\ calls = <<>> /\ DOMAIN memo = {}

\* ------------------------------------------------------------------- C6
\* the three candidates of an interior cell, from the stored results
MatchOf(i, j) ==
    __add__(from_pair(item1At(i), item2At(j), distance), memo[<<i + 1, j + 1>>])
SkipFirstOf(i, j) ==
    __add__(from_pair(NOVALUE, item2At(j), distance), memo[<<i, j + 1>>])
SkipSecondOf(i, j) ==
    __add__(from_pair(item1At(i), NOVALUE, distance), memo[<<i + 1, j>>])

\* C6: an interior cell stores the first candidate of minimal loss in the
\* order match, skip-from-first, skip-from-second.
C6_TieBreak ==
    \A c \in DOMAIN memo :
        (c[1] < first_size /\ c[2] < second_size) =>
            LET m  == MatchOf(c[1], c[2])
                s1 == SkipFirstOf(c[1], c[2])
                s2 == SkipSecondOf(c[1], c[2])
            IN  /\ (LossLe(m.loss, s1.loss) /\ LossLe(m.loss, s2.loss))
                      => memo[c] = m
                /\ (LossLt(s1.loss, m.loss) /\ LossLe(s1.loss, s2.loss))
                      => memo[c] = s1
                /\ (LossLt(s2.loss, m.loss) /\ LossLt(s2.loss, s1.loss))
                      => memo[c] = s2

C6_Witness ==
    \E c \in DOMAIN memo :
        /\ c[1] < first_size /\ c[2] < second_size
        /\ MatchOf(c[1], c[2]).loss = SkipFirstOf(c[1], c[2]).loss
        /\ MatchOf(c[1], c[2]).loss # INFTY
        /\ LossLe(MatchOf(c[1], c[2]).loss, SkipSecondOf(c[1], c[2]).loss)
        /\ MatchOf(c[1], c[2]).aligned # SkipFirstOf(c[1], c[2]).aligned
        /\ memo[c] = MatchOf(c[1], c[2])

\* ------------------------------------------------------------------- C7
\* C7: every comparison (<, <=, >, >=, ==) and every + between an
\* AlignmentResult and a value of another type raises; none returns a value.
C7_AlwaysRaises ==
    (opres.op # "none" /\ opres.other.type # "AlignmentResult")
        => opres.outcome.kind # "returns"

\* ------------------------------------------------------------------- C8
SkipsOfSecond ==
    [k \in 1..second_size |-> Aligned(NOVALUE, Item(k - 1, second_seq[k]))]
SkipsOfFirst ==
    [k \in 1..first_size |-> Aligned(Item(k - 1, first_seq[k]), NOVALUE)]

DependsOn(c) ==
    {d \in {<<c[1] + 1, c[2] + 1>>, <<c[1], c[2] + 1>>, <<c[1] + 1, c[2]>>} :
        d[1] <= first_size /\ d[2] <= second_size}

\* the value the invocation on top of the stack hands to its caller in a step
Handed ==
    IF Len(stack) = 1 THEN result'
    ELSE stack'[Len(stack) - 1].cands[Len(stack'[Len(stack) - 1].cands)]

Expected(v) ==
    IF Len(stack) = 1 THEN v ELSE __add__(stack[Len(stack) - 1].head, v)

C9_State ==
    /\ \A a, b \in 1..Len(written) : written[a] = written[b] => a = b
    /\ DOMAIN memo = Range(written)
    /\ \A c \in DOMAIN memo :
          c[1] \in 0..first_size /\ c[2] \in 0..second_size
    /\ \A a \in 1..Len(written) :
          DependsOn(written[a]) \subseteq {written[b] : b \in 1..(a - 1)}
    /\ Len(calls) <= 3 * first_size * second_size + first_size + second_size

C9_Step ==
    /\ pc = "running" =>
          \A c \in DOMAIN memo : c \in DOMAIN memo' /\ memo'[c] = memo[c]
    /\ (pc = "running" /\ Memoized) =>
          /\ calls' = calls
          /\ memo' = memo
          /\ Handed = Expected(memo[TopCell])
    /\ (pc # "running" /\ pc' = "running") => DOMAIN memo' = {}

\* C9: within one call every cell is stored at most once and never changed
\* or removed, a solve of a stored cell returns the stored result without a
\* distance call, a cell is stored only after the cells it depends on, and a
\* call starts with no entry of an earlier call.
C9_MemoOnce == [] C9_State /\ [][C9_Step]_vars

C9_Witness ==
    /\ pc = "returned"
    /\ first_size = MaxLen /\ second_size = MaxLen
    /\ Len(written) = (MaxLen + 1) * (MaxLen + 1)
    /\ Len(calls) = 3 * MaxLen * MaxLen + 2 * MaxLen

\* ------------------------------------------------------------------ C10
FirstSides(aligned)  == [k \in 1..Len(aligned) |-> aligned[k].first]
SecondSides(aligned) == [k \in 1..Len(aligned) |-> aligned[k].second]
IsItem(x) == x # NOVALUE

\* C10: a returned result of finite loss is a complete monotone alignment:
\* no pair is a skip on both sides, and the items of each side are exactly
\* the positions of its sequence, each once and in increasing order.
C10_Complete ==
    (pc = "returned" /\ result.loss # INFTY) =>
        /\ \A k \in 1..Len(result.aligned) :
              ~ (result.aligned[k].first = NOVALUE /\ result.aligned[k].second = NOVALUE)
        /\ SelectSeq(FirstSides(result.aligned), IsItem)
              = [k \in 1..first_size |-> Item(k - 1, first_seq[k])]
        /\ SelectSeq(SecondSides(result.aligned), IsItem)
              = [k \in 1..second_size |-> Item(k - 1, second_seq[k])]

C10_Witness ==
    /\ pc = "returned"
    /\ result.loss # INFTY
    /\ first_size = MaxLen /\ second_size = MaxLen
    /\ \E k \in 1..Len(result.aligned) : result.aligned[k].first = NOVALUE
    /\ \E k \in 1..Len(result.aligned) : result.aligned[k].second = NOVALUE
    /\ \E k \in 1..Len(result.aligned) :
          result.aligned[k].first # NOVALUE /\ result.aligned[k].second # NOVALUE
====
